---- MODULE Spec2Model ----
(***************************************************************************)
(* Webhook ingestion and order materialization of the r-com backend:       *)
(* src/backend/src/webhooks/{mod,stripe,square}.rs.  Every HTTP request is *)
(* an independent task; its steps are the awaited database operations,     *)
(* which interleave freely with the steps of the other requests.           *)
(***************************************************************************)
EXTENDS Integers, Sequences, FiniteSets, TLC

\* ------------------------------------------------------------------ bounds
\* Number of webhook deliveries (HTTP requests) in one behaviour.
MaxReq == 2
\* Number of database operations that may fail transiently in one behaviour.
MaxFaults == 1

Req == 1..MaxReq

\* ------------------------------------------------------------ Option<T>
None == <<>>
Some(x) == <<x>>
IsSome(o) == o # <<>>
Unwrap(o) == o[1]

\* ------------------------------------------------------------- payloads
\* str::to_uppercase over the currency codes that occur in the payloads.
ToUppercase(s) ==
    CASE s = "usd" -> "USD"
      [] s = "eur" -> "EUR"
      [] OTHER -> s

\* PaymentProvider's Display: the string stored in the provider columns.
ProviderStr(p) ==
    CASE p = "Stripe" -> "stripe"
      [] p = "Square" -> "square"

\* The raw request bodies a sender may post.  A body is raw bytes to the
\* signature check; Catalogue[b] is what those bytes deserialize to.
Catalogue == <<
    \* 1: Stripe payment_intent.succeeded
    [shape |-> "stripe", id |-> "evt_1", type_ |-> "payment_intent.succeeded",
     object |-> [kind |-> "PaymentIntent", id |-> "pi_1", amount |-> 2500,
                 currency |-> "usd", receipt_email |-> Some("a@b.com")]],
    \* 2: Stripe charge.succeeded of the same payment intent
    [shape |-> "stripe", id |-> "evt_2", type_ |-> "charge.succeeded",
     object |-> [kind |-> "Charge", id |-> "ch_1", amount |-> 2500,
                 currency |-> "usd", payment_intent |-> Some("pi_1"),
                 email |-> Some("a@b.com"), name |-> Some("Ann")]],
    \* 3: Stripe checkout.session.completed of the same payment intent,
    \*    amount_total and currency absent
    [shape |-> "stripe", id |-> "evt_3", type_ |-> "checkout.session.completed",
     object |-> [kind |-> "CheckoutSession", id |-> "cs_1", amount_total |-> None,
                 currency |-> None, payment_intent |-> Some("pi_1"),
                 customer_email |-> Some("a@b.com")]],
    \* 4: Stripe event of a type the router does not handle
    [shape |-> "stripe", id |-> "evt_4", type_ |-> "customer.created",
     object |-> [kind |-> "Customer", id |-> "cus_1"]],
    \* 5: Stripe payment_intent.succeeded whose data.object is not a PaymentIntent
    [shape |-> "stripe", id |-> "evt_5", type_ |-> "payment_intent.succeeded",
     object |-> [kind |-> "Customer", id |-> "cus_1"]],
    \* 6: Square payment.updated, COMPLETED
    [shape |-> "square", event_id |-> "sq_evt_1", event_type |-> "payment.updated",
     payment |-> Some([id |-> "sq_1", status |-> "COMPLETED", amount |-> 1999,
                       currency |-> "USD", buyer_email_address |-> Some("c@d.com")])],
    \* 7: Square payment.updated of the same payment in a second event,
    \*    currency code in lower case, no buyer email
    [shape |-> "square", event_id |-> "sq_evt_2", event_type |-> "payment.updated",
     payment |-> Some([id |-> "sq_1", status |-> "COMPLETED", amount |-> 1999,
                       currency |-> "usd", buyer_email_address |-> None])],
    \* 8: Square payment.updated, not yet completed
    [shape |-> "square", event_id |-> "sq_evt_3", event_type |-> "payment.updated",
     payment |-> Some([id |-> "sq_1", status |-> "APPROVED", amount |-> 1999,
                       currency |-> "USD", buyer_email_address |-> None])],
    \* 9: Square payment.created carrying a COMPLETED payment
    [shape |-> "square", event_id |-> "sq_evt_4", event_type |-> "payment.created",
     payment |-> Some([id |-> "sq_1", status |-> "COMPLETED", amount |-> 1999,
                       currency |-> "USD", buyer_email_address |-> None])],
    \* 10: Square payment.updated without a payment object
    [shape |-> "square", event_id |-> "sq_evt_5", event_type |-> "payment.updated",
     payment |-> None],
    \* 11: Square event of a type the router does not handle
    [shape |-> "square", event_id |-> "sq_evt_6", event_type |-> "refund.created",
     payment |-> None],
    \* 12: Square payment.updated whose event_id equals that of Stripe body 1
    [shape |-> "square", event_id |-> "evt_1", event_type |-> "payment.updated",
     payment |-> Some([id |-> "sq_2", status |-> "COMPLETED", amount |-> 1999,
                       currency |-> "USD", buyer_email_address |-> None])],
    \* 13: bytes that are not JSON
    [shape |-> "garbage"],
    \* 14: a second Stripe checkout.session.completed event of session cs_1,
    \*     amount_total and currency present, no payment intent, no email
    [shape |-> "stripe", id |-> "evt_6", type_ |-> "checkout.session.completed",
     object |-> [kind |-> "CheckoutSession", id |-> "cs_1", amount_total |-> Some(4200),
                 currency |-> Some("eur"), payment_intent |-> None,
                 customer_email |-> None]]
>>

Bodies == 1..Len(Catalogue)

\* -------------------------------------------------------- configuration
StripeSecretVar == "STRIPE_WEBHOOK_SECRET"
SquareKeyVar == "SQUARE_WEBHOOK_SIGNATURE_KEY"
SquareUrlVar == "SQUARE_WEBHOOK_URL"
EnvVars == {StripeSecretVar, SquareKeyVar, SquareUrlVar}

\* The deployment's values, and the fallbacks the handlers substitute.
Deployed ==
    [v \in EnvVars |->
        CASE v = StripeSecretVar -> Some("whsec_live")
          [] v = SquareKeyVar -> Some("sq_live_key")
          [] v = SquareUrlVar -> Some("https://shop.example/api/webhooks/square")]

Envs == {Deployed} \cup {[Deployed EXCEPT ![v] = None] : v \in EnvVars}

\* std::env::var(name).unwrap_or_else(|_| default)
EnvOr(e, name, default) == IF IsSome(e[name]) THEN Unwrap(e[name]) ELSE default

\* ------------------------------------------------------------ signatures
\* An HMAC is modelled as the pair of its key and its message: equal exactly
\* when key and message are equal (no collisions, no forgery without the key).
Hmac(key, msg) == <<key, msg>>

StripeKeys == {"whsec_live", "whsec_test_secret", "whsec_forged"}
SquareSigners ==
    {<<"sq_live_key", "https://shop.example/api/webhooks/square">>,
     <<"your_webhook_signature_key", "https://your-domain.com/api/webhooks/square">>,
     <<"sq_live_key", "https://your-domain.com/api/webhooks/square">>,
     <<"sq_forged_key", "https://shop.example/api/webhooks/square">>}

\* The signature header values a sender can attach to body b.
StripeHeaders(b) == {None} \cup {Some(Hmac(k, <<b>>)) : k \in StripeKeys}
SquareHeaders(b) == {None} \cup {Some(Hmac(s[1], <<s[2], b>>)) : s \in SquareSigners}

\* An event construction that does not compare the signature.
ConstructEventUnverified(b, signature, secret) ==
    IF Catalogue[b].shape # "stripe" THEN "BadParse" ELSE "Ok"

\* stripe::Webhook::construct_event: signature over the raw body, then the
\* body is deserialized into an Event.  Deliveries are taken to arrive within
\* the library's timestamp tolerance.
ConstructEvent(b, signature, secret) ==
    IF signature # Hmac(secret, <<b>>) THEN "BadSignature"
    ELSE IF Catalogue[b].shape # "stripe" THEN "BadParse"
    ELSE "Ok"

\* A comparison that accepts every signature.
verify_square_signature_any(b, signature, signature_key, webhook_url) == TRUE

verify_square_signature(b, signature, signature_key, webhook_url) ==
    Hmac(signature_key, <<webhook_url, b>>) = signature

\* serde_json::from_str::<SquareWebhookEvent>
SquareParses(b) == Catalogue[b].shape = "square"

\* ----------------------------------------------------------------- state
VARIABLES
    env,             \* process environment: the three configuration variables
    webhook_events,  \* table webhook_events, in insertion order (id = position)
    orders,          \* table orders, in insertion order (id = position)
    req,             \* per request: the handler's locals, position and response
    faults           \* database operations that have failed so far

vars == <<env, webhook_events, orders, req, faults>>

NoResponse == [status |-> 0, duplicate |-> FALSE, error |-> None]

\* A request slot before its delivery arrives.
Idle ==
    [pc |-> "idle", endpoint |-> "none", header |-> None, body |-> 0,
     webhook_id |-> 0, result |-> "pending", resp |-> NoResponse,
     order_id |-> 0, mail |-> "none",
     \* history, read by the properties only
     after |-> {}, dbErr |-> FALSE, markErr |-> FALSE, conflict |-> "none"]

Init ==
    /\ env \in Envs
    /\ webhook_events = <<>>
    /\ orders = <<>>
    /\ req = [r \in Req |-> Idle]
    /\ faults = 0

\* --------------------------------------------------------------- storage
\* The schema without its uniqueness constraints: no insert is rejected.
UniqueViolationOff(keys, key) == FALSE

\* A uniqueness constraint of the storage layer rejects an insert whose key
\* is already present (webhook_events.event_id, orders(payment_provider,
\* payment_id), orders.payment_intent_id where not null).
UniqueViolation(keys, key) == key \in keys

EventIds(rows) == {rows[i].event_id : i \in 1..Len(rows)}
PaymentKeys(rows) ==
    {<<rows[i].payment_provider, rows[i].payment_id>> : i \in 1..Len(rows)}
IntentIds(rows) ==
    {Unwrap(rows[i].payment_intent_id) :
        i \in {j \in 1..Len(rows) : IsSome(rows[j].payment_intent_id)}}

EventInsertRejected(rows, event) == UniqueViolation(EventIds(rows), event.event_id)

OrderInsertRejected(rows, order) ==
    \/ UniqueViolation(PaymentKeys(rows),
                       <<ProviderStr(order.payment_provider), order.payment_id>>)
    \/ /\ IsSome(order.payment_intent_id)
       /\ UniqueViolation(IntentIds(rows), Unwrap(order.payment_intent_id))

\* INSERT INTO webhook_events (...) VALUES ($1, $2, $3, $4, FALSE) RETURNING id
log_webhook_event(rows, event) ==
    Append(rows,
        [id |-> Len(rows) + 1,
         provider |-> ProviderStr(event.provider),
         event_type |-> event.event_type,
         event_id |-> event.event_id,
         payload |-> event.payload,
         processed |-> FALSE,
         processed_at |-> None,
         error_message |-> None,
         updates |-> 0])

\* An update that does not store the error string.
mark_webhook_processed_no_message(rows, webhook_id, success, error_message) ==
    [rows EXCEPT ![webhook_id] =
        [@ EXCEPT !.processed = success, !.processed_at = Some("now"),
                  !.updates = @ + 1]]

\* UPDATE webhook_events SET processed = $1, processed_at = NOW(),
\* error_message = $2 WHERE id = $3
mark_webhook_processed(rows, webhook_id, success, error_message) ==
    [i \in 1..Len(rows) |->
        IF rows[i].id = webhook_id
        THEN [rows[i] EXCEPT !.processed = success,
                             !.processed_at = Some("now"),
                             !.error_message = error_message,
                             !.updates = @ + 1]
        ELSE rows[i]]

\* INSERT INTO orders (...) VALUES (...) RETURNING id
create_order(rows, order) ==
    Append(rows,
        [id |-> Len(rows) + 1,
         payment_provider |-> ProviderStr(order.payment_provider),
         payment_id |-> order.payment_id,
         payment_intent_id |-> order.payment_intent_id,
         customer_email |-> order.customer_email,
         customer_name |-> order.customer_name,
         total_amount |-> order.total_amount,
         currency |-> order.currency,
         status |-> order.status,
         webhook_event_id |-> order.webhook_event_id])

\* The lookup comparing the wrong column.
is_event_processed_by_type(rows, event_id) ==
    \E i \in 1..Len(rows) : rows[i].event_type = event_id

\* SELECT EXISTS(SELECT 1 FROM webhook_events WHERE event_id = $1)
is_event_processed(rows, event_id) ==
    \E i \in 1..Len(rows) : rows[i].event_id = event_id

\* A lookup that reports an Order for every payment intent.
OrderByIntentExistsAlways(rows, pi_str) == TRUE

\* SELECT id FROM orders WHERE payment_intent_id = $1
OrderByIntentExists(rows, pi_str) ==
    \E i \in 1..Len(rows) : rows[i].payment_intent_id = Some(pi_str)

\* SELECT id FROM orders WHERE payment_id = $1 AND payment_provider = 'square'
SquareOrderExists(rows, payment_id) ==
    \E i \in 1..Len(rows) :
        rows[i].payment_id = payment_id /\ rows[i].payment_provider = "square"

\* A database operation may fail transiently (connection lost, pool timeout).
CanFail == faults < MaxFaults

\* ------------------------------------------------------- handler plumbing
Respond(status, duplicate, error) ==
    [status |-> status, duplicate |-> duplicate, error |-> error]

\* Request r proceeds to position pc.
Goto(r, pc) == req' = [req EXCEPT ![r].pc = pc]

\* Request r returns: the handler's future completes with this response.
Return(r, rec, response) ==
    req' = [req EXCEPT ![r] = [rec EXCEPT !.pc = "done", !.resp = response]]

\* Deliveries arrive in slot order; slots are interchangeable.
Arrives(r) ==
    /\ req[r].pc = "idle"
    /\ IF r = 1 THEN TRUE ELSE req[r - 1].pc # "idle"

Received(r, endpoint, header, b) ==
    [req[r] EXCEPT !.endpoint = endpoint, !.header = header, !.body = b,
                   !.after = {q \in Req : req[q].pc = "done"}]

\* ------------------------------------------------ POST /api/webhooks/stripe
\* Signature header, secret, construct_event.
StripeReceive(r) ==
    /\ Arrives(r)
    /\ \E b \in Bodies : \E header \in StripeHeaders(b) :
        LET rec == Received(r, "stripe", header, b)
            webhook_secret == EnvOr(env, StripeSecretVar, "whsec_test_secret")
        IN  IF header = None
            THEN Return(r, rec, Respond(400, FALSE, Some("Missing stripe-signature header")))
            ELSE IF ConstructEvent(b, Unwrap(header), webhook_secret) # "Ok"
            THEN Return(r, rec, Respond(400, FALSE,
                                        Some("Webhook signature verification failed")))
            ELSE req' = [req EXCEPT ![r] = [rec EXCEPT !.pc = "check"]]
    /\ UNCHANGED <<env, webhook_events, orders, faults>>

\* The Event the Stripe handler works on.
StripeEvent(r) == Catalogue[req[r].body]

\* A handler that takes a failed is_event_processed for "not seen" and goes on.
StripeCheckLenient(r) ==
    /\ req[r].pc = "check" /\ req[r].endpoint = "stripe"
    /\ \/ /\ is_event_processed(webhook_events, StripeEvent(r).id)
          /\ Return(r, req[r], Respond(200, TRUE, None))
          /\ UNCHANGED faults
       \/ /\ ~is_event_processed(webhook_events, StripeEvent(r).id)
          /\ Goto(r, "log")
          /\ UNCHANGED faults
       \/ /\ CanFail
          /\ faults' = faults + 1
          /\ req' = [req EXCEPT ![r].dbErr = TRUE, ![r].pc = "log"]
    /\ UNCHANGED <<env, webhook_events, orders>>

\* match is_event_processed(&state.pool, event_id).await
StripeCheck(r) ==
    /\ req[r].pc = "check" /\ req[r].endpoint = "stripe"
    /\ \/ /\ is_event_processed(webhook_events, StripeEvent(r).id)
          /\ Return(r, req[r], Respond(200, TRUE, None))
          /\ UNCHANGED faults
       \/ /\ ~is_event_processed(webhook_events, StripeEvent(r).id)
          /\ Goto(r, "log")
          /\ UNCHANGED faults
       \/ /\ CanFail
          /\ faults' = faults + 1
          /\ Return(r, [req[r] EXCEPT !.dbErr = TRUE],
                    Respond(500, FALSE, Some("Database error")))
    /\ UNCHANGED <<env, webhook_events, orders>>

\* A router that rejects a checkout session without amount_total.
StripeDispatchAmountRequired(event) ==
    CASE event.type_ = "payment_intent.succeeded" ->
            IF event.object.kind = "PaymentIntent"
            THEN [pc |-> "payment_intent", result |-> "pending"]
            ELSE [pc |-> "finish", result |-> "Expected PaymentIntent object"]
      [] event.type_ = "charge.succeeded" ->
            IF event.object.kind # "Charge"
            THEN [pc |-> "finish", result |-> "Expected Charge object"]
            ELSE IF IsSome(event.object.payment_intent)
            THEN [pc |-> "charge_select", result |-> "pending"]
            ELSE [pc |-> "charge_create", result |-> "pending"]
      [] event.type_ = "checkout.session.completed" ->
            IF event.object.kind # "CheckoutSession"
            THEN [pc |-> "finish", result |-> "Expected CheckoutSession object"]
            ELSE IF ~IsSome(event.object.amount_total)
            THEN [pc |-> "finish", result |-> "Missing amount_total"]
            ELSE [pc |-> "checkout", result |-> "pending"]
      [] OTHER -> [pc |-> "mark_other", result |-> "pending"]

\* A router that reports an event type it has no handler for as an error.
StripeDispatchStrict(event) ==
    CASE event.type_ = "payment_intent.succeeded" ->
            IF event.object.kind = "PaymentIntent"
            THEN [pc |-> "payment_intent", result |-> "pending"]
            ELSE [pc |-> "finish", result |-> "Expected PaymentIntent object"]
      [] event.type_ = "charge.succeeded" ->
            IF event.object.kind # "Charge"
            THEN [pc |-> "finish", result |-> "Expected Charge object"]
            ELSE IF IsSome(event.object.payment_intent)
            THEN [pc |-> "charge_select", result |-> "pending"]
            ELSE [pc |-> "charge_create", result |-> "pending"]
      [] event.type_ = "checkout.session.completed" ->
            IF event.object.kind = "CheckoutSession"
            THEN [pc |-> "checkout", result |-> "pending"]
            ELSE [pc |-> "finish", result |-> "Expected CheckoutSession object"]
      [] OTHER -> [pc |-> "finish", result |-> "Unhandled event type"]

\* match event.type_: the first position of the selected branch, and the
\* result of a branch that returns before its first database operation.
StripeDispatch(event) ==
    CASE event.type_ = "payment_intent.succeeded" ->
            IF event.object.kind = "PaymentIntent"
            THEN [pc |-> "payment_intent", result |-> "pending"]
            ELSE [pc |-> "finish", result |-> "Expected PaymentIntent object"]
      [] event.type_ = "charge.succeeded" ->
            IF event.object.kind # "Charge"
            THEN [pc |-> "finish", result |-> "Expected Charge object"]
            ELSE IF IsSome(event.object.payment_intent)
            THEN [pc |-> "charge_select", result |-> "pending"]
            ELSE [pc |-> "charge_create", result |-> "pending"]
      [] event.type_ = "checkout.session.completed" ->
            IF event.object.kind = "CheckoutSession"
            THEN [pc |-> "checkout", result |-> "pending"]
            ELSE [pc |-> "finish", result |-> "Expected CheckoutSession object"]
      [] OTHER -> [pc |-> "mark_other", result |-> "pending"]

\* A handler that tries log_webhook_event again after a database failure.
StripeLogRetry(r) ==
    /\ req[r].pc = "log" /\ req[r].endpoint = "stripe"
    /\ LET webhook_event ==
               [provider |-> "Stripe", event_type |-> StripeEvent(r).type_,
                event_id |-> StripeEvent(r).id, payload |-> req[r].body]
           next == StripeDispatch(StripeEvent(r))
       IN  \/ /\ ~EventInsertRejected(webhook_events, webhook_event)
              /\ webhook_events' = log_webhook_event(webhook_events, webhook_event)
              /\ req' = [req EXCEPT ![r].webhook_id = Len(webhook_events) + 1,
                                    ![r].pc = next.pc,
                                    ![r].result = next.result]
              /\ UNCHANGED faults
           \/ /\ EventInsertRejected(webhook_events, webhook_event)
              /\ Return(r, [req[r] EXCEPT !.conflict = "event"],
                        Respond(500, FALSE, Some("Failed to log webhook")))
              /\ UNCHANGED <<webhook_events, faults>>
           \/ /\ CanFail
              /\ faults' = faults + 1
              /\ req' = [req EXCEPT ![r].dbErr = TRUE]
              /\ UNCHANGED webhook_events
    /\ UNCHANGED <<env, orders>>

\* CreateWebhookEvent, log_webhook_event, and the dispatch on event.type_.
StripeLog(r) ==
    /\ req[r].pc = "log" /\ req[r].endpoint = "stripe"
    /\ LET webhook_event ==
               [provider |-> "Stripe", event_type |-> StripeEvent(r).type_,
                event_id |-> StripeEvent(r).id, payload |-> req[r].body]
           next == StripeDispatch(StripeEvent(r))
       IN  \/ /\ ~EventInsertRejected(webhook_events, webhook_event)
              /\ webhook_events' = log_webhook_event(webhook_events, webhook_event)
              /\ req' = [req EXCEPT ![r].webhook_id = Len(webhook_events) + 1,
                                    ![r].pc = next.pc,
                                    ![r].result = next.result]
              /\ UNCHANGED faults
           \/ /\ EventInsertRejected(webhook_events, webhook_event)
              /\ Return(r, [req[r] EXCEPT !.conflict = "event"],
                        Respond(500, FALSE, Some("Failed to log webhook")))
              /\ UNCHANGED <<webhook_events, faults>>
           \/ /\ CanFail
              /\ faults' = faults + 1
              /\ Return(r, [req[r] EXCEPT !.dbErr = TRUE],
                        Respond(500, FALSE, Some("Failed to log webhook")))
              /\ UNCHANGED webhook_events
    /\ UNCHANGED <<env, orders>>

\* The outcome of create_order(&state.pool, order).await.map_err(...)? in a
\* materialization routine of request r; mailTo is the address the routine
\* notifies after a successful insert, if any.
InsertOrder(r, order, mailTo) ==
    \/ /\ ~OrderInsertRejected(orders, order)
       /\ orders' = create_order(orders, order)
       /\ req' = [req EXCEPT ![r].order_id = Len(orders) + 1,
                             ![r].pc = IF IsSome(mailTo) THEN "mail" ELSE "finish",
                             ![r].result = IF IsSome(mailTo) THEN "pending" ELSE "Ok"]
       /\ UNCHANGED faults
    \/ /\ OrderInsertRejected(orders, order)
       /\ req' = [req EXCEPT ![r].pc = "finish", ![r].conflict = "order",
                             ![r].result = "Failed to create order: duplicate key"]
       /\ UNCHANGED <<orders, faults>>
    \/ /\ CanFail
       /\ faults' = faults + 1
       /\ req' = [req EXCEPT ![r].pc = "finish", ![r].dbErr = TRUE,
                             ![r].result = "Failed to create order: database error"]
       /\ UNCHANGED orders

\* The order of a payment intent without its payment_intent_id.
PaymentIntentOrderNoIntent(event, webhook_id) ==
    [payment_provider |-> "Stripe",
     payment_id |-> event.object.id,
     payment_intent_id |-> None,
     customer_email |-> event.object.receipt_email,
     customer_name |-> None,
     total_amount |-> event.object.amount,
     currency |-> ToUppercase(event.object.currency),
     status |-> "completed",
     webhook_event_id |-> Some(webhook_id)]

\* The order of a payment intent recorded as still pending.
PaymentIntentOrderPending(event, webhook_id) ==
    [payment_provider |-> "Stripe",
     payment_id |-> event.object.id,
     payment_intent_id |-> Some(event.object.id),
     customer_email |-> event.object.receipt_email,
     customer_name |-> None,
     total_amount |-> event.object.amount,
     currency |-> ToUppercase(event.object.currency),
     status |-> "pending",
     webhook_event_id |-> Some(webhook_id)]

PaymentIntentOrder(event, webhook_id) ==
    [payment_provider |-> "Stripe",
     payment_id |-> event.object.id,
     payment_intent_id |-> Some(event.object.id),
     customer_email |-> event.object.receipt_email,
     customer_name |-> None,
     total_amount |-> event.object.amount,
     currency |-> ToUppercase(event.object.currency),
     status |-> "completed",
     webhook_event_id |-> Some(webhook_id)]

handle_payment_intent_succeeded(r) ==
    /\ req[r].pc = "payment_intent"
    /\ InsertOrder(r, PaymentIntentOrder(StripeEvent(r), req[r].webhook_id),
                   StripeEvent(r).object.receipt_email)
    /\ UNCHANGED <<env, webhook_events>>

\* The lookup by payment_intent_id that precedes the insert.
handle_charge_succeeded_select(r) ==
    /\ req[r].pc = "charge_select"
    /\ \/ /\ OrderByIntentExists(orders, Unwrap(StripeEvent(r).object.payment_intent))
          /\ req' = [req EXCEPT ![r].pc = "finish", ![r].result = "Ok"]
          /\ UNCHANGED faults
       \/ /\ ~OrderByIntentExists(orders, Unwrap(StripeEvent(r).object.payment_intent))
          /\ Goto(r, "charge_create")
          /\ UNCHANGED faults
       \/ /\ CanFail
          /\ faults' = faults + 1
          /\ req' = [req EXCEPT ![r].pc = "finish", ![r].dbErr = TRUE,
                                ![r].result = "Database error"]
    /\ UNCHANGED <<env, webhook_events, orders>>

ChargeOrder(event, webhook_id) ==
    [payment_provider |-> "Stripe",
     payment_id |-> event.object.id,
     payment_intent_id |-> event.object.payment_intent,
     customer_email |-> event.object.email,
     customer_name |-> event.object.name,
     total_amount |-> event.object.amount,
     currency |-> ToUppercase(event.object.currency),
     status |-> "completed",
     webhook_event_id |-> Some(webhook_id)]

\* A charge routine that notifies the billing address.
handle_charge_succeeded_notifying(r) ==
    /\ req[r].pc = "charge_create"
    /\ InsertOrder(r, ChargeOrder(StripeEvent(r), req[r].webhook_id),
                   StripeEvent(r).object.email)
    /\ UNCHANGED <<env, webhook_events>>

handle_charge_succeeded(r) ==
    /\ req[r].pc = "charge_create"
    /\ InsertOrder(r, ChargeOrder(StripeEvent(r), req[r].webhook_id), None)
    /\ UNCHANGED <<env, webhook_events>>

\* The order of a checkout session without its payment_intent_id.
CheckoutOrderNoIntent(event, webhook_id) ==
    [payment_provider |-> "Stripe",
     payment_id |-> event.object.id,
     payment_intent_id |-> None,
     customer_email |-> event.object.customer_email,
     customer_name |-> None,
     total_amount |-> IF IsSome(event.object.amount_total)
                      THEN Unwrap(event.object.amount_total) ELSE 0,
     currency |-> IF IsSome(event.object.currency)
                  THEN ToUppercase(Unwrap(event.object.currency)) ELSE "USD",
     status |-> "completed",
     webhook_event_id |-> Some(webhook_id)]

CheckoutOrder(event, webhook_id) ==
    [payment_provider |-> "Stripe",
     payment_id |-> event.object.id,
     payment_intent_id |-> event.object.payment_intent,
     customer_email |-> event.object.customer_email,
     customer_name |-> None,
     total_amount |-> IF IsSome(event.object.amount_total)
                      THEN Unwrap(event.object.amount_total) ELSE 0,
     currency |-> IF IsSome(event.object.currency)
                  THEN ToUppercase(Unwrap(event.object.currency)) ELSE "USD",
     status |-> "completed",
     webhook_event_id |-> Some(webhook_id)]

handle_checkout_session_completed(r) ==
    /\ req[r].pc = "checkout"
    /\ InsertOrder(r, CheckoutOrder(StripeEvent(r), req[r].webhook_id),
                   StripeEvent(r).object.customer_email)
    /\ UNCHANGED <<env, webhook_events>>

\* A notification step that turns a failed send into a failed materialization.
stripe_send_order_confirmation_email_strict(r) ==
    /\ req[r].pc = "mail" /\ req[r].endpoint = "stripe"
    /\ \E outcome \in {"sent", "not_configured", "send_failed"} :
        req' = [req EXCEPT ![r].mail = outcome, ![r].pc = "finish",
                           ![r].result = IF outcome = "sent" THEN "Ok"
                                         ELSE "Failed to send email"]
    /\ UNCHANGED <<env, webhook_events, orders, faults>>

\* stripe.rs send_order_confirmation_email: EmailConfig::from_env, then
\* send_html_email; every failure is printed and dropped.
stripe_send_order_confirmation_email(r) ==
    /\ req[r].pc = "mail" /\ req[r].endpoint = "stripe"
    /\ \E outcome \in {"sent", "not_configured", "send_failed"} :
        req' = [req EXCEPT ![r].mail = outcome, ![r].pc = "finish", ![r].result = "Ok"]
    /\ UNCHANGED <<env, webhook_events, orders, faults>>

\* A handler that answers 500 when the final update fails.
MarkOrFail(r, success, error_message, rec) ==
    \/ /\ webhook_events' = mark_webhook_processed(webhook_events, req[r].webhook_id,
                                                   success, error_message)
       /\ req' = [req EXCEPT ![r] = rec]
       /\ UNCHANGED faults
    \/ /\ CanFail
       /\ faults' = faults + 1
       /\ req' = [req EXCEPT ![r] =
                    [rec EXCEPT !.dbErr = TRUE, !.markErr = TRUE,
                                !.resp = IF rec.pc = "done"
                                         THEN Respond(500, FALSE, Some("Database error"))
                                         ELSE @]]
       /\ UNCHANGED webhook_events

\* mark_webhook_processed(...).await.ok(): the update is applied, or it
\* fails and the failure is discarded; request r carries on either way.
MarkAndContinue(r, success, error_message, rec) ==
    \/ /\ webhook_events' = mark_webhook_processed(webhook_events, req[r].webhook_id,
                                                   success, error_message)
       /\ req' = [req EXCEPT ![r] = rec]
       /\ UNCHANGED faults
    \/ /\ CanFail
       /\ faults' = faults + 1
       /\ req' = [req EXCEPT ![r] = [rec EXCEPT !.dbErr = TRUE, !.markErr = TRUE]]
       /\ UNCHANGED webhook_events

\* A handler that surfaces a materialization error as a server error.
FinalResponseSurfaced(result) ==
    IF result = "Ok"
    THEN Respond(200, FALSE, None)
    ELSE Respond(500, FALSE, Some(result))

\* The response chosen by `match result` once the dispatch has returned.
FinalResponse(result) ==
    IF result = "Ok"
    THEN Respond(200, FALSE, None)
    ELSE Respond(200, FALSE, Some(result))

\* The catch-all arm of match event.type_.
StripeMarkOther(r) ==
    /\ req[r].pc = "mark_other" /\ req[r].endpoint = "stripe"
    /\ MarkAndContinue(r, TRUE, None,
                       [req[r] EXCEPT !.pc = "finish", !.result = "Ok"])
    /\ UNCHANGED <<env, orders>>

\* match result: mark the event, answer 200.
StripeFinish(r) ==
    /\ req[r].pc = "finish" /\ req[r].endpoint = "stripe"
    /\ MarkAndContinue(r, req[r].result = "Ok",
                       IF req[r].result = "Ok" THEN None ELSE Some(req[r].result),
                       [req[r] EXCEPT !.pc = "done",
                                      !.resp = FinalResponse(req[r].result)])
    /\ UNCHANGED <<env, orders>>

\* ------------------------------------------------ POST /api/webhooks/square
\* Signature header, key and URL, verify_square_signature, UTF-8 and JSON.
SquareReceive(r) ==
    /\ Arrives(r)
    /\ \E b \in Bodies : \E header \in SquareHeaders(b) :
        LET rec == Received(r, "square", header, b)
            webhook_signature_key ==
                EnvOr(env, SquareKeyVar, "your_webhook_signature_key")
            webhook_url ==
                EnvOr(env, SquareUrlVar, "https://your-domain.com/api/webhooks/square")
        IN  IF header = None
            THEN Return(r, rec, Respond(400, FALSE,
                                        Some("Missing x-square-hmacsha256-signature header")))
            ELSE IF ~verify_square_signature(b, Unwrap(header),
                                             webhook_signature_key, webhook_url)
            THEN Return(r, rec, Respond(401, FALSE,
                                        Some("Webhook signature verification failed")))
            ELSE IF ~SquareParses(b)
            THEN Return(r, rec, Respond(400, FALSE, Some("Invalid JSON")))
            ELSE req' = [req EXCEPT ![r] = [rec EXCEPT !.pc = "check"]]
    /\ UNCHANGED <<env, webhook_events, orders, faults>>

\* The SquareWebhookEvent the Square handler works on.
SquareEvent(r) == Catalogue[req[r].body]

\* A gate that looks among the rows of its own provider only.
SquareCheckByProvider(r) ==
    /\ req[r].pc = "check" /\ req[r].endpoint = "square"
    /\ LET own == SelectSeq(webhook_events, LAMBDA row : row.provider = "square")
       IN  \/ /\ is_event_processed(own, SquareEvent(r).event_id)
              /\ Return(r, req[r], Respond(200, TRUE, None))
              /\ UNCHANGED faults
           \/ /\ ~is_event_processed(own, SquareEvent(r).event_id)
              /\ Goto(r, "log")
              /\ UNCHANGED faults
           \/ /\ CanFail
              /\ faults' = faults + 1
              /\ Return(r, [req[r] EXCEPT !.dbErr = TRUE],
                        Respond(500, FALSE, Some("Database error")))
    /\ UNCHANGED <<env, webhook_events, orders>>

\* A handler that marks the stored row again when it meets a duplicate.
SquareCheckRemark(r) ==
    /\ req[r].pc = "check" /\ req[r].endpoint = "square"
    /\ \/ /\ is_event_processed(webhook_events, SquareEvent(r).event_id)
          /\ Return(r, req[r], Respond(200, TRUE, None))
          /\ webhook_events' =
                mark_webhook_processed(webhook_events,
                    CHOOSE j \in 1..Len(webhook_events) :
                        webhook_events[j].event_id = SquareEvent(r).event_id,
                    TRUE, None)
          /\ UNCHANGED faults
       \/ /\ ~is_event_processed(webhook_events, SquareEvent(r).event_id)
          /\ Goto(r, "log")
          /\ UNCHANGED <<webhook_events, faults>>
       \/ /\ CanFail
          /\ faults' = faults + 1
          /\ Return(r, [req[r] EXCEPT !.dbErr = TRUE],
                    Respond(500, FALSE, Some("Database error")))
          /\ UNCHANGED webhook_events
    /\ UNCHANGED <<env, orders>>

SquareCheck(r) ==
    /\ req[r].pc = "check" /\ req[r].endpoint = "square"
    /\ \/ /\ is_event_processed(webhook_events, SquareEvent(r).event_id)
          /\ Return(r, req[r], Respond(200, TRUE, None))
          /\ UNCHANGED faults
       \/ /\ ~is_event_processed(webhook_events, SquareEvent(r).event_id)
          /\ Goto(r, "log")
          /\ UNCHANGED faults
       \/ /\ CanFail
          /\ faults' = faults + 1
          /\ Return(r, [req[r] EXCEPT !.dbErr = TRUE],
                    Respond(500, FALSE, Some("Database error")))
    /\ UNCHANGED <<env, webhook_events, orders>>

\* A router that sends payment.created through handle_payment_updated.
SquareDispatchCreated(event) ==
    CASE event.event_type \in {"payment.updated", "payment.created"} ->
            IF ~IsSome(event.payment)
            THEN [pc |-> "finish", result |-> "Missing payment object in event data"]
            ELSE IF Unwrap(event.payment).status # "COMPLETED"
            THEN [pc |-> "finish", result |-> "Ok"]
            ELSE [pc |-> "payment_select", result |-> "pending"]
      [] OTHER -> [pc |-> "mark_other", result |-> "pending"]

\* A router that materializes a payment.updated whatever the payment status.
SquareDispatchAnyStatus(event) ==
    CASE event.event_type = "payment.updated" ->
            IF ~IsSome(event.payment)
            THEN [pc |-> "finish", result |-> "Missing payment object in event data"]
            ELSE [pc |-> "payment_select", result |-> "pending"]
      [] event.event_type = "payment.created" ->
            [pc |-> "mark_other", result |-> "pending"]
      [] OTHER -> [pc |-> "mark_other", result |-> "pending"]

\* match event.event_type.as_str(), with the part of handle_payment_updated
\* that runs before its first database operation.
SquareDispatch(event) ==
    CASE event.event_type = "payment.updated" ->
            IF ~IsSome(event.payment)
            THEN [pc |-> "finish", result |-> "Missing payment object in event data"]
            ELSE IF Unwrap(event.payment).status # "COMPLETED"
            THEN [pc |-> "finish", result |-> "Ok"]
            ELSE [pc |-> "payment_select", result |-> "pending"]
      [] event.event_type = "payment.created" ->
            [pc |-> "mark_other", result |-> "pending"]
      [] OTHER -> [pc |-> "mark_other", result |-> "pending"]

SquareLog(r) ==
    /\ req[r].pc = "log" /\ req[r].endpoint = "square"
    /\ LET webhook_event ==
               [provider |-> "Square", event_type |-> SquareEvent(r).event_type,
                event_id |-> SquareEvent(r).event_id, payload |-> req[r].body]
           next == SquareDispatch(SquareEvent(r))
       IN  \/ /\ ~EventInsertRejected(webhook_events, webhook_event)
              /\ webhook_events' = log_webhook_event(webhook_events, webhook_event)
              /\ req' = [req EXCEPT ![r].webhook_id = Len(webhook_events) + 1,
                                    ![r].pc = next.pc,
                                    ![r].result = next.result]
              /\ UNCHANGED faults
           \/ /\ EventInsertRejected(webhook_events, webhook_event)
              /\ Return(r, [req[r] EXCEPT !.conflict = "event"],
                        Respond(500, FALSE, Some("Failed to log webhook")))
              /\ UNCHANGED <<webhook_events, faults>>
           \/ /\ CanFail
              /\ faults' = faults + 1
              /\ Return(r, [req[r] EXCEPT !.dbErr = TRUE],
                        Respond(500, FALSE, Some("Failed to log webhook")))
              /\ UNCHANGED webhook_events
    /\ UNCHANGED <<env, orders>>

\* The lookup by payment_id that precedes the insert.
handle_payment_updated_select(r) ==
    /\ req[r].pc = "payment_select"
    /\ \/ /\ SquareOrderExists(orders, Unwrap(SquareEvent(r).payment).id)
          /\ req' = [req EXCEPT ![r].pc = "finish", ![r].result = "Ok"]
          /\ UNCHANGED faults
       \/ /\ ~SquareOrderExists(orders, Unwrap(SquareEvent(r).payment).id)
          /\ Goto(r, "payment_create")
          /\ UNCHANGED faults
       \/ /\ CanFail
          /\ faults' = faults + 1
          /\ req' = [req EXCEPT ![r].pc = "finish", ![r].dbErr = TRUE,
                                ![r].result = "Database error"]
    /\ UNCHANGED <<env, webhook_events, orders>>

SquareOrder(event, webhook_id) ==
    LET payment == Unwrap(event.payment)
    IN  [payment_provider |-> "Square",
         payment_id |-> payment.id,
         payment_intent_id |-> None,
         customer_email |-> payment.buyer_email_address,
         customer_name |-> None,
         total_amount |-> payment.amount,
         currency |-> payment.currency,
         status |-> "completed",
         webhook_event_id |-> Some(webhook_id)]

handle_payment_updated(r) ==
    /\ req[r].pc = "payment_create"
    /\ InsertOrder(r, SquareOrder(SquareEvent(r), req[r].webhook_id),
                   Unwrap(SquareEvent(r).payment).buyer_email_address)
    /\ UNCHANGED <<env, webhook_events>>

\* square.rs send_order_confirmation_email: prints the notification.
square_send_order_confirmation_email(r) ==
    /\ req[r].pc = "mail" /\ req[r].endpoint = "square"
    /\ req' = [req EXCEPT ![r].mail = "printed", ![r].pc = "finish", ![r].result = "Ok"]
    /\ UNCHANGED <<env, webhook_events, orders, faults>>

\* The payment.created arm and the catch-all arm of match event.event_type.
SquareMarkOther(r) ==
    /\ req[r].pc = "mark_other" /\ req[r].endpoint = "square"
    /\ MarkAndContinue(r, TRUE, None,
                       [req[r] EXCEPT !.pc = "finish", !.result = "Ok"])
    /\ UNCHANGED <<env, orders>>

SquareFinish(r) ==
    /\ req[r].pc = "finish" /\ req[r].endpoint = "square"
    /\ MarkAndContinue(r, req[r].result = "Ok",
                       IF req[r].result = "Ok" THEN None ELSE Some(req[r].result),
                       [req[r] EXCEPT !.pc = "done",
                                      !.resp = FinalResponse(req[r].result)])
    /\ UNCHANGED <<env, orders>>

\* ------------------------------------------------------------ behaviours
Next ==
    \E r \in Req :
        \/ StripeReceive(r)
        \/ StripeCheck(r)
        \/ StripeLog(r)
        \/ handle_payment_intent_succeeded(r)
        \/ handle_charge_succeeded_select(r)
        \/ handle_charge_succeeded(r)
        \/ handle_checkout_session_completed(r)
        \/ stripe_send_order_confirmation_email(r)
        \/ StripeMarkOther(r)
        \/ StripeFinish(r)
        \/ SquareReceive(r)
        \/ SquareCheck(r)
        \/ SquareLog(r)
        \/ handle_payment_updated_select(r)
        \/ handle_payment_updated(r)
        \/ square_send_order_confirmation_email(r)
        \/ SquareMarkOther(r)
        \/ SquareFinish(r)

Spec == Init /\ [][Next]_vars

\* ------------------------------------------------- vocabulary of the claims
Started(r) == req[r].pc # "idle"
Done(r) == req[r].pc = "done"

\* The signature a provider that holds the handler's signing configuration
\* attaches to body b.
ProviderSignature(endpoint, b) ==
    IF endpoint = "stripe"
    THEN Hmac(EnvOr(env, StripeSecretVar, "whsec_test_secret"), <<b>>)
    ELSE Hmac(EnvOr(env, SquareKeyVar, "your_webhook_signature_key"),
              <<EnvOr(env, SquareUrlVar, "https://your-domain.com/api/webhooks/square"), b>>)

MissingSignature(r) == Started(r) /\ req[r].header = None
SignatureMismatch(r) ==
    /\ Started(r)
    /\ req[r].header # None
    /\ req[r].header # Some(ProviderSignature(req[r].endpoint, req[r].body))
MalformedBody(r) == Started(r) /\ Catalogue[req[r].body].shape # req[r].endpoint

\* A correctly signed, well-formed delivery.
Genuine(r) ==
    Started(r) /\ ~MissingSignature(r) /\ ~SignatureMismatch(r) /\ ~MalformedBody(r)

EventIdOf(b) ==
    CASE Catalogue[b].shape = "stripe" -> Catalogue[b].id
      [] Catalogue[b].shape = "square" -> Catalogue[b].event_id
      [] OTHER -> "none"

\* Bodies that announce a successful payment the router materializes.
OrderCreating(b) ==
    \/ /\ Catalogue[b].shape = "stripe"
       /\ \/ Catalogue[b].type_ = "payment_intent.succeeded"
             /\ Catalogue[b].object.kind = "PaymentIntent"
          \/ Catalogue[b].type_ = "charge.succeeded"
             /\ Catalogue[b].object.kind = "Charge"
          \/ Catalogue[b].type_ = "checkout.session.completed"
             /\ Catalogue[b].object.kind = "CheckoutSession"
    \/ /\ Catalogue[b].shape = "square"
       /\ Catalogue[b].event_type = "payment.updated"
       /\ IsSome(Catalogue[b].payment)
       /\ Unwrap(Catalogue[b].payment).status = "COMPLETED"

\* The payment intent a Stripe body refers to, if any.
IntentOf(b) ==
    IF Catalogue[b].shape = "stripe" /\ OrderCreating(b)
    THEN IF Catalogue[b].object.kind = "PaymentIntent"
         THEN Some(Catalogue[b].object.id)
         ELSE Catalogue[b].object.payment_intent
    ELSE None

\* The provider's identifier of the payment object of body b.
PaymentIdOf(b) ==
    IF Catalogue[b].shape = "stripe"
    THEN Catalogue[b].object.id
    ELSE Unwrap(Catalogue[b].payment).id

\* The Order rows (by id) recorded for the payment that body b announces.
OrdersForPayment(b) ==
    {i \in 1..Len(orders) :
        \/ /\ orders[i].payment_provider = Catalogue[b].shape
           /\ orders[i].payment_id = PaymentIdOf(b)
        \/ /\ IsSome(IntentOf(b))
           /\ orders[i].payment_intent_id = IntentOf(b)}

\* The Order rows created by deliveries of event_id eid.
OrdersOfEvent(eid) ==
    {i \in 1..Len(orders) :
        \E j \in 1..Len(webhook_events) :
            /\ webhook_events[j].event_id = eid
            /\ orders[i].webhook_event_id = Some(webhook_events[j].id)}

EventRows(eid) == {j \in 1..Len(webhook_events) : webhook_events[j].event_id = eid}

SameDelivery(r1, r2) ==
    /\ req[r1].endpoint = req[r2].endpoint
    /\ req[r1].header = req[r2].header
    /\ req[r1].body = req[r2].body

\* ------------------------------------------------------------------ claims

\* Bodies b1 and b2 announce the same payment.
SamePayment(b1, b2) ==
    /\ OrderCreating(b1) /\ OrderCreating(b2)
    /\ \/ /\ Catalogue[b1].shape = Catalogue[b2].shape
          /\ PaymentIdOf(b1) = PaymentIdOf(b2)
       \/ IsSome(IntentOf(b1)) /\ IntentOf(b1) = IntentOf(b2)

\* No delivery besides r1 and r2 concerns their event or their payment.
OnlyDeliveries(r1, r2) ==
    \A q \in Req \ {r1, r2} :
        Genuine(q) =>
            /\ EventIdOf(req[q].body) # EventIdOf(req[r1].body)
            /\ ~SamePayment(req[q].body, req[r1].body)

\* C1: a correctly signed, order-creating delivery that is repeated after the
\* first one has responded (no database failure in either, no other delivery
\* of the event or the payment) is answered 200 with the duplicate marker,
\* and there is exactly one Order for the payment and exactly one
\* WebhookEvent row for the event_id.
C1_SequentialRedelivery ==
    \A r1 \in Req : \A r2 \in Req :
        ( /\ Done(r2) /\ r1 \in req[r2].after
          /\ SameDelivery(r1, r2)
          /\ OnlyDeliveries(r1, r2)
          /\ Genuine(r1) /\ OrderCreating(req[r1].body)
          /\ req[r1].order_id # 0
          /\ ~req[r1].dbErr /\ ~req[r2].dbErr )
        => /\ req[r2].resp = Respond(200, TRUE, None)
           /\ Cardinality(OrdersForPayment(req[r1].body)) = 1
           /\ Cardinality(OrdersOfEvent(EventIdOf(req[r1].body))) = 1
           /\ Cardinality(EventRows(EventIdOf(req[r1].body))) = 1

C1_Witness ==
    \E r1 \in Req : \E r2 \in Req :
        /\ Done(r2) /\ r1 \in req[r2].after
        /\ SameDelivery(r1, r2)
        /\ Genuine(r1) /\ req[r1].order_id # 0
        /\ req[r2].resp.duplicate

\* Two deliveries of one event_id overlapped: both passed is_event_processed
\* before either had logged the event.
Raced(r1, r2) ==
    /\ r1 # r2
    /\ Genuine(r1) /\ Genuine(r2)
    /\ EventIdOf(req[r1].body) = EventIdOf(req[r2].body)
    /\ req[r1].webhook_id # 0
    /\ req[r2].conflict = "event"

\* C2: whatever the interleaving of two deliveries of one event_id, the
\* deliveries of that event_id create at most one Order, and there is at most
\* one Order for the payment.
C2_ConcurrentSameEvent ==
    \A r1 \in Req : \A r2 \in Req :
        ( /\ r1 # r2 /\ Genuine(r1) /\ Genuine(r2)
          /\ req[r1].body = req[r2].body
          /\ OrderCreating(req[r1].body) )
        => /\ ~(req[r1].order_id # 0 /\ req[r2].order_id # 0)
           /\ Cardinality(OrdersOfEvent(EventIdOf(req[r1].body))) <= 1
           /\ Cardinality(OrdersForPayment(req[r1].body)) <= 1

C2_Witness ==
    \E r1 \in Req : \E r2 \in Req :
        /\ Raced(r1, r2)
        /\ req[r1].body = req[r2].body
        /\ req[r1].order_id # 0
        /\ Done(r1) /\ Done(r2)

\* C3: no two Order rows share (payment_provider, payment_id), and no two
\* share a non-null payment_intent_id.
C3_OrderKeysUnique ==
    \A i \in 1..Len(orders) : \A j \in 1..Len(orders) :
        i # j =>
            /\ <<orders[i].payment_provider, orders[i].payment_id>>
                    # <<orders[j].payment_provider, orders[j].payment_id>>
            /\ IsSome(orders[i].payment_intent_id)
                    => orders[i].payment_intent_id # orders[j].payment_intent_id

\* Two requests were materializing the same payment and the later insert
\* was refused.
C3_Witness ==
    \E r \in Req :
        /\ req[r].conflict = "order"
        /\ Len(orders) = 1

IsCharge(b) == Catalogue[b].shape = "stripe" /\ Catalogue[b].type_ = "charge.succeeded"
IsCheckout(b) ==
    Catalogue[b].shape = "stripe" /\ Catalogue[b].type_ = "checkout.session.completed"
IsPaymentIntent(b) ==
    /\ Catalogue[b].shape = "stripe"
    /\ Catalogue[b].type_ = "payment_intent.succeeded"
    /\ Catalogue[b].object.kind = "PaymentIntent"

\* Both events of one payment intent have been processed by requests that
\* logged them and met no database failure.
BothProcessed(r1, r2) ==
    /\ Genuine(r1) /\ Genuine(r2)
    /\ Done(r1) /\ Done(r2)
    /\ req[r1].webhook_id # 0 /\ req[r2].webhook_id # 0
    /\ ~req[r1].dbErr /\ ~req[r2].dbErr
    /\ IntentOf(req[r1].body) = IntentOf(req[r2].body)

\* The Orders of the payment intent of r1's event, together with every Order
\* that r1 or r2 created.
OrdersOfPair(r1, r2) ==
    OrdersForPayment(req[r1].body)
        \cup {i \in 1..Len(orders) : i = req[r1].order_id \/ i = req[r2].order_id}

\* C4: once a charge.succeeded and a checkout.session.completed event of the
\* same payment intent have both been processed, in either order or
\* overlapping, exactly one Order exists for them.
C4_ChargeAndCheckout ==
    \A r1 \in Req : \A r2 \in Req :
        ( /\ Started(r1) /\ Started(r2)
          /\ IsCharge(req[r1].body) /\ IsCheckout(req[r2].body)
          /\ BothProcessed(r1, r2) )
        => Cardinality(OrdersOfPair(r1, r2)) = 1

\* The overlapping case: the charge handler's lookup found nothing, the
\* checkout handler inserted, and the charge handler's insert was refused.
C4_Witness ==
    \E r1 \in Req : \E r2 \in Req :
        /\ Started(r1) /\ Started(r2)
        /\ IsCharge(req[r1].body) /\ IsCheckout(req[r2].body)
        /\ BothProcessed(r1, r2)
        /\ req[r1].conflict = "order"
        /\ req[r2].order_id # 0

\* C5: once a payment_intent.succeeded and a charge.succeeded event of the
\* same payment intent have both been processed, in either order, exactly
\* one Order exists for that payment intent.
C5_IntentAndCharge ==
    \A r1 \in Req : \A r2 \in Req :
        ( /\ Started(r1) /\ Started(r2)
          /\ IsPaymentIntent(req[r1].body) /\ IsCharge(req[r2].body)
          /\ BothProcessed(r1, r2) )
        => Cardinality(OrdersOfPair(r1, r2)) = 1

\* The charge was processed first and created the Order; the payment intent
\* event came after it had responded.
C5_Witness ==
    \E r1 \in Req : \E r2 \in Req :
        /\ Started(r1) /\ Started(r2)
        /\ IsPaymentIntent(req[r1].body) /\ IsCharge(req[r2].body)
        /\ BothProcessed(r1, r2)
        /\ r2 \in req[r1].after
        /\ req[r2].order_id # 0

\* C6: no two WebhookEvent rows share an event_id.
C6_EventIdUnique ==
    \A i \in 1..Len(webhook_events) : \A j \in 1..Len(webhook_events) :
        i # j => webhook_events[i].event_id # webhook_events[j].event_id

\* Two deliveries of one event_id overlapped and both have completed.
C6_Witness ==
    \E r1 \in Req : \E r2 \in Req :
        Raced(r1, r2) /\ Done(r1) /\ Done(r2)

\* C7 (as claimed): a request whose insert was refused by a uniqueness
\* constraint is answered 200 without an error field.
C7_ConflictIsSuccess ==
    \A r \in Req :
        (Done(r) /\ req[r].conflict # "none")
        => req[r].resp = Respond(200, FALSE, None) \/ req[r].resp = Respond(200, TRUE, None)

\* C8: a request with a missing or mismatching signature or a malformed body
\* is answered 400 or 401 (401 for a Square signature mismatch) and creates
\* no row: every WebhookEvent row was logged by a genuine delivery and every
\* Order was created by one.
C8_RejectedLeavesNothing ==
    /\ \A r \in Req :
        (MissingSignature(r) \/ SignatureMismatch(r) \/ MalformedBody(r))
        => /\ Done(r)
           /\ req[r].resp.status \in {400, 401}
           /\ (req[r].endpoint = "square" /\ SignatureMismatch(r))
                  => req[r].resp.status = 401
           /\ req[r].webhook_id = 0
           /\ req[r].order_id = 0
    /\ \A j \in 1..Len(webhook_events) :
        \E q \in Req : Genuine(q) /\ req[q].webhook_id = webhook_events[j].id
    /\ \A i \in 1..Len(orders) :
        \E q \in Req : Genuine(q) /\ req[q].order_id = orders[i].id

\* A Square delivery of a well-formed body with a wrong signature was
\* answered 401 while the tables are empty.
C8_Witness ==
    \E r \in Req :
        /\ Done(r) /\ req[r].endpoint = "square"
        /\ SignatureMismatch(r) /\ ~MalformedBody(r)
        /\ req[r].resp.status = 401
        /\ Len(webhook_events) = 0 /\ Len(orders) = 0

\* Every started delivery of event_id eid has responded.
Settled(eid) ==
    \A q \in Req : (Genuine(q) /\ EventIdOf(req[q].body) = eid) => Done(q)

\* No delivery of a different event carries r's event_id.
NoForeignEvent(r) ==
    \A q \in Req :
        (Genuine(q) /\ EventIdOf(req[q].body) = EventIdOf(req[r].body))
        => req[q].body = req[r].body

\* The provider stops redelivering r's event: it was answered 2xx.
Acknowledged(r) == Done(r) /\ req[r].resp.status = 200

\* The existence check or the Order insert of r failed in the database.
MaterializationDbError(r) ==
    req[r].result \in {"Database error", "Failed to create order: database error"}

\* C9 (as claimed): once the terminal event of a successful payment has been
\* acknowledged and none of its deliveries is in flight, exactly one Order for
\* the payment exists.
C9_ExactlyOnce ==
    \A r \in Req :
        ( /\ Genuine(r) /\ OrderCreating(req[r].body)
          /\ NoForeignEvent(r)
          /\ Acknowledged(r)
          /\ Settled(EventIdOf(req[r].body)) )
        => Cardinality(OrdersForPayment(req[r].body)) = 1

\* C9 (amended): never more than one Order per payment; and exactly one once
\* the delivery that logged the event has responded, unless its existence
\* check or Order insert failed in the database.
C9_AtMostOnce ==
    \A r \in Req :
        ( Genuine(r) /\ OrderCreating(req[r].body) )
        => /\ Cardinality(OrdersForPayment(req[r].body)) <= 1
           /\ ( /\ NoForeignEvent(r)
                /\ Done(r) /\ req[r].webhook_id # 0
                /\ ~MaterializationDbError(r) )
              => /\ req[r].resp.status = 200
                 /\ Cardinality(OrdersForPayment(req[r].body)) = 1

\* A delivery was refused with 500 before the event was logged, the provider
\* redelivered, and the redelivery recorded the Order.
C9_Witness ==
    \E r1 \in Req : \E r2 \in Req :
        /\ SameDelivery(r1, r2) /\ Genuine(r1) /\ OrderCreating(req[r1].body)
        /\ Done(r1) /\ req[r1].resp.status = 500 /\ req[r1].dbErr
        /\ r1 \in req[r2].after
        /\ Done(r2) /\ req[r2].order_id # 0
        /\ Cardinality(OrdersForPayment(req[r2].body)) = 1

\* Bodies whose payload lacks the object their event type requires.
MissingField(b) ==
    \/ /\ Catalogue[b].shape = "stripe"
       /\ Catalogue[b].type_ = "payment_intent.succeeded"
       /\ Catalogue[b].object.kind # "PaymentIntent"
    \/ /\ Catalogue[b].shape = "square"
       /\ Catalogue[b].event_type = "payment.updated"
       /\ ~IsSome(Catalogue[b].payment)

\* C10: a request that has logged its WebhookEvent row is answered 200; when
\* materialization failed (missing payload field, database error or refused
\* insert while checking or inserting the Order) the 200 carries the error.
C10_LoggedMeans200 ==
    \A r \in Req :
        (Done(r) /\ req[r].webhook_id # 0)
        => /\ req[r].resp.status = 200
           /\ ~req[r].resp.duplicate
           /\ (MissingField(req[r].body) \/ MaterializationDbError(r)
                    \/ req[r].conflict = "order")
                  => /\ IsSome(req[r].resp.error)
                     /\ req[r].resp.error = Some(req[r].result)
           /\ (req[r].result = "Ok") => req[r].resp.error = None

\* All three kinds of materialization failure end in 200 with an error field;
\* here the database failed while the Order was inserted.
C10_Witness ==
    \E r \in Req :
        /\ Done(r) /\ req[r].webhook_id # 0
        /\ req[r].result = "Failed to create order: database error"
        /\ req[r].resp.status = 200
        /\ IsSome(req[r].resp.error)

\* The WebhookEvent row that request r logged.
EventRowOf(r) == webhook_events[req[r].webhook_id]

\* C11 (as claimed): a request that logged a WebhookEvent row and has
\* responded (no database operation of it failed) leaves that row with
\* processed = true and processed_at set, whether materialization succeeded
\* or failed; a failed one has its error_message recorded.
C11_LoggedEndsProcessed ==
    \A r \in Req :
        (Done(r) /\ req[r].webhook_id # 0 /\ ~req[r].dbErr)
        => /\ EventRowOf(r).processed = TRUE
           /\ IsSome(EventRowOf(r).processed_at)
           /\ (req[r].result # "Ok") => IsSome(EventRowOf(r).error_message)

\* The database failed in request r before r had logged its event, that is,
\* in is_event_processed or in log_webhook_event.
FailedBeforeLogged(r) == req[r].dbErr /\ req[r].webhook_id = 0

\* C12: a request whose is_event_processed or log_webhook_event failed in the
\* database is answered 500 at once and has created no WebhookEvent row and
\* no Order row: the rows in the tables are those of the requests that logged.
C12_DbFailureBeforeLog ==
    /\ \A r \in Req :
        FailedBeforeLogged(r)
        => /\ Done(r)
           /\ req[r].resp.status = 500
           /\ req[r].order_id = 0
           /\ req[r].mail = "none"
    /\ Len(webhook_events) = Cardinality({q \in Req : req[q].webhook_id # 0})
    /\ Len(orders) = Cardinality({q \in Req : req[q].order_id # 0})

\* log_webhook_event failed for the only delivery; both tables are empty.
C12_Witness ==
    \E r \in Req :
        /\ Genuine(r) /\ FailedBeforeLogged(r) /\ Done(r)
        /\ req[r].resp = Respond(500, FALSE, Some("Failed to log webhook"))
        /\ Len(webhook_events) = 0 /\ Len(orders) = 0

\* C13: the step of a request whose is_event_processed finds a row with its
\* event_id ends the request with 200 {received, duplicate} and writes
\* nothing: webhook_events and orders are unchanged, the request has logged
\* no row, created no Order and attempted no notification.
C13_DuplicateWritesNothing ==
    [][ \A r \in Req :
          ( /\ req[r].pc = "check"
            /\ req'[r] # req[r]
            /\ faults' = faults
            /\ EventRows(EventIdOf(req[r].body)) # {} )
          => /\ req'[r].pc = "done"
             /\ req'[r].resp = Respond(200, TRUE, None)
             /\ webhook_events' = webhook_events
             /\ orders' = orders
             /\ req'[r].webhook_id = 0
             /\ req'[r].order_id = 0
             /\ req'[r].mail = "none" ]_vars

\* A redelivery was answered as a duplicate of an event whose first delivery
\* had recorded its Order.
C13_Witness ==
    \E r \in Req : \E q \in Req :
        /\ Done(r) /\ req[r].resp = Respond(200, TRUE, None)
        /\ req[q].webhook_id \in EventRows(EventIdOf(req[r].body))
        /\ req[q].order_id # 0

\* Square payment.updated bodies whose payment has not reached COMPLETED.
NotCompleted(b) ==
    /\ Catalogue[b].shape = "square"
    /\ Catalogue[b].event_type = "payment.updated"
    /\ IsSome(Catalogue[b].payment)
    /\ Unwrap(Catalogue[b].payment).status # "COMPLETED"

\* The row request r logged records a successful outcome.
MarkedSuccessful(r) ==
    /\ EventRowOf(r).processed = TRUE
    /\ IsSome(EventRowOf(r).processed_at)
    /\ EventRowOf(r).error_message = None

\* C14: a correctly signed Square payment.updated whose payment status is not
\* COMPLETED creates no Order; the request that logged it is answered 200
\* without an error field and (its database operations not failing) leaves the
\* event row marked as successfully processed.
C14_NotCompletedIsNoOp ==
    \A r \in Req :
        (Genuine(r) /\ NotCompleted(req[r].body))
        => /\ req[r].order_id = 0
           /\ req[r].mail = "none"
           /\ OrdersOfEvent(EventIdOf(req[r].body)) = {}
           /\ (Done(r) /\ req[r].webhook_id # 0)
              => /\ req[r].resp = Respond(200, FALSE, None)
                 /\ ~req[r].dbErr => MarkedSuccessful(r)

\* An APPROVED payment.updated was logged, answered and marked while the
\* orders table is empty.
C14_Witness ==
    \E r \in Req :
        /\ Genuine(r) /\ NotCompleted(req[r].body)
        /\ Done(r) /\ req[r].webhook_id # 0
        /\ req[r].resp = Respond(200, FALSE, None)
        /\ MarkedSuccessful(r)
        /\ Len(orders) = 0

\* Bodies of an event type neither router has a handler for.
UnhandledType(b) ==
    \/ /\ Catalogue[b].shape = "stripe"
       /\ Catalogue[b].type_ \notin {"payment_intent.succeeded", "charge.succeeded",
                                     "checkout.session.completed"}
    \/ /\ Catalogue[b].shape = "square"
       /\ Catalogue[b].event_type \notin {"payment.updated", "payment.created"}

\* C15: a correctly signed event of an unhandled type creates no Order; a
\* delivery of it that is not a duplicate (no database failure, no refused
\* insert) logs the event, is answered 200 without an error field and leaves
\* the event row marked as successfully processed.
C15_UnhandledTypeLoggedOnly ==
    \A r \in Req :
        (Genuine(r) /\ UnhandledType(req[r].body))
        => /\ req[r].order_id = 0
           /\ req[r].mail = "none"
           /\ OrdersOfEvent(EventIdOf(req[r].body)) = {}
           /\ (Done(r) /\ req[r].webhook_id # 0)
              => req[r].resp = Respond(200, FALSE, None)
           /\ (Done(r) /\ ~req[r].dbErr /\ req[r].conflict = "none"
                       /\ ~req[r].resp.duplicate)
              => /\ req[r].webhook_id # 0
                 /\ EventRowOf(r).event_id = EventIdOf(req[r].body)
                 /\ MarkedSuccessful(r)

\* A Stripe customer.created and a Square refund.created were both logged,
\* marked and answered while the orders table is empty.
C15_Witness ==
    \E r1 \in Req : \E r2 \in Req :
        /\ req[r1].endpoint = "stripe" /\ req[r2].endpoint = "square"
        /\ \A r \in {r1, r2} :
            /\ Genuine(r) /\ UnhandledType(req[r].body)
            /\ Done(r) /\ req[r].webhook_id # 0
            /\ req[r].resp = Respond(200, FALSE, None)
            /\ MarkedSuccessful(r)
        /\ Len(orders) = 0

PaymentCreated(b) ==
    Catalogue[b].shape = "square" /\ Catalogue[b].event_type = "payment.created"

\* C16: a correctly signed Square payment.created never reaches the Order
\* lookup or insert and creates no Order, whatever the status of the payment it
\* carries; the request that logged it is answered 200 without an error field
\* and (its database operations not failing) leaves the row marked as
\* successfully processed.
C16_PaymentCreatedNoOrder ==
    \A r \in Req :
        (Genuine(r) /\ PaymentCreated(req[r].body))
        => /\ req[r].pc \notin {"payment_select", "payment_create", "mail"}
           /\ req[r].order_id = 0
           /\ OrdersOfEvent(EventIdOf(req[r].body)) = {}
           /\ (Done(r) /\ req[r].webhook_id # 0)
              => /\ req[r].resp = Respond(200, FALSE, None)
                 /\ ~req[r].dbErr => MarkedSuccessful(r)

\* A payment.created carrying a COMPLETED payment was logged, marked and
\* answered, and no Order exists for that payment.
C16_Witness ==
    \E r \in Req :
        /\ Genuine(r) /\ PaymentCreated(req[r].body)
        /\ Unwrap(Catalogue[req[r].body].payment).status = "COMPLETED"
        /\ Done(r) /\ req[r].webhook_id # 0
        /\ MarkedSuccessful(r)
        /\ ~SquareOrderExists(orders, Unwrap(Catalogue[req[r].body].payment).id)

\* The amount and the currency code that the payload of an order-creating
\* body carries, where it carries them.
PayloadAmount(b) ==
    IF Catalogue[b].shape = "square" THEN Some(Unwrap(Catalogue[b].payment).amount)
    ELSE IF Catalogue[b].object.kind = "CheckoutSession"
    THEN Catalogue[b].object.amount_total
    ELSE Some(Catalogue[b].object.amount)

PayloadCurrency(b) ==
    IF Catalogue[b].shape = "square" THEN Some(Unwrap(Catalogue[b].payment).currency)
    ELSE IF Catalogue[b].object.kind = "CheckoutSession"
    THEN Catalogue[b].object.currency
    ELSE Some(Catalogue[b].object.currency)

\* C17 (as claimed): the Order a request created has the total_amount of its
\* payload and the upper-cased currency code of its payload, on every path.
C17_AmountAndCurrency ==
    \A r \in Req :
        req[r].order_id # 0
        => LET o == orders[req[r].order_id]
               b == req[r].body
           IN  /\ IsSome(PayloadAmount(b))
                  => o.total_amount = Unwrap(PayloadAmount(b))
               /\ IsSome(PayloadCurrency(b))
                  => o.currency = ToUppercase(Unwrap(PayloadCurrency(b)))

\* C18: starting from empty tables, the single correctly signed delivery of a
\* Stripe payment_intent.succeeded (event E, intent P, amount A, currency c,
\* receipt_email m), no database operation failing, is answered 200
\* {received: true} and leaves exactly one WebhookEvent row (event_id E,
\* processed) and exactly one Order row (payment_id P, total_amount A,
\* currency upper-cased c, customer_email m, status completed).
C18_PaymentIntentEndToEnd ==
    \A r \in Req :
        ( /\ Genuine(r) /\ IsPaymentIntent(req[r].body)
          /\ Done(r) /\ ~req[r].dbErr
          /\ \A q \in Req \ {r} : ~Started(q) )
        => LET pi == Catalogue[req[r].body].object
           IN  /\ req[r].resp = Respond(200, FALSE, None)
               /\ Len(webhook_events) = 1
               /\ webhook_events[1].event_id = Catalogue[req[r].body].id
               /\ webhook_events[1].provider = "stripe"
               /\ webhook_events[1].processed = TRUE
               /\ Len(orders) = 1
               /\ orders[1].payment_provider = "stripe"
               /\ orders[1].payment_id = pi.id
               /\ orders[1].total_amount = pi.amount
               /\ orders[1].currency = ToUppercase(pi.currency)
               /\ orders[1].customer_email = pi.receipt_email
               /\ orders[1].status = "completed"

\* The delivery of evt_1 (pi_1, 2500, "usd", a@b.com) has responded and the
\* Order reads 2500 USD.
C18_Witness ==
    \E r \in Req :
        /\ Genuine(r) /\ IsPaymentIntent(req[r].body)
        /\ Done(r) /\ ~req[r].dbErr
        /\ \A q \in Req \ {r} : ~Started(q)
        /\ Len(orders) = 1
        /\ orders[1].total_amount = 2500 /\ orders[1].currency = "USD"
        /\ orders[1].customer_email = Some("a@b.com")

\* A configuration variable that the endpoint's signature check reads is
\* absent from the environment.
Unconfigured(endpoint) ==
    IF endpoint = "stripe"
    THEN ~IsSome(env[StripeSecretVar])
    ELSE ~IsSome(env[SquareKeyVar]) \/ ~IsSome(env[SquareUrlVar])

\* C19 (as claimed): while a signing secret or the Square notification URL is
\* missing from the configuration, no delivery to that endpoint is accepted
\* as verified: every one is turned away, logs no WebhookEvent and creates
\* no Order.
C19_MissingConfigRefuses ==
    \A r \in Req :
        (Started(r) /\ Unconfigured(req[r].endpoint))
        => /\ Done(r)
           /\ req[r].resp.status # 200
           /\ req[r].webhook_id = 0
           /\ req[r].order_id = 0

\* The notification of request r was attempted and did not go out.
NotificationFailed(r) == req[r].mail \in {"not_configured", "send_failed"}

\* The Order row that the materialization routine of Stripe request r commits.
CommittedOrder(r) ==
    LET order == IF IsPaymentIntent(req[r].body)
                 THEN PaymentIntentOrder(StripeEvent(r), req[r].webhook_id)
                 ELSE CheckoutOrder(StripeEvent(r), req[r].webhook_id)
    IN  [create_order(<<>>, order)[1] EXCEPT !.id = req[r].order_id]

\* C20: after the order-confirmation notification of a request has failed
\* (mailer not configured, invalid address, SMTP error) the Order row is the
\* one that was committed, the routine's result is success, and once the
\* request has responded the response is 200 {received: true} and (the
\* database not failing) the event row records a successful outcome.
C20_NotificationFailureIsolated ==
    \A r \in Req :
        NotificationFailed(r)
        => /\ req[r].order_id # 0
           /\ orders[req[r].order_id] = CommittedOrder(r)
           /\ req[r].result = "Ok"
           /\ Done(r)
              => /\ req[r].resp = Respond(200, FALSE, None)
                 /\ ~req[r].dbErr => MarkedSuccessful(r)

\* The send failed after the Order of a payment intent was committed; the
\* Order stands, the event row records success and the request was answered
\* 200 without an error field.
C20_Witness ==
    \E r \in Req :
        /\ req[r].mail = "send_failed"
        /\ Done(r) /\ req[r].order_id # 0
        /\ orders[req[r].order_id] = CommittedOrder(r)
        /\ req[r].resp = Respond(200, FALSE, None)
        /\ MarkedSuccessful(r)

\* An Order with the (payment_provider, payment_id) of request r's payment
\* object is in the table.
OrderForPaymentExists(r) ==
    \E i \in 1..Len(orders) :
        /\ orders[i].payment_provider = req[r].endpoint
        /\ orders[i].payment_id = PaymentIdOf(req[r].body)

\* The positions at which the four materialization routines start.
PathEntry == {"payment_intent", "charge_select", "checkout", "payment_select"}

\* C21 (as claimed): the first step of a materialization routine that runs
\* while an Order with the same (payment_provider, payment_id) exists (the
\* database not failing) inserts nothing and ends the routine with success.
C21_ExistingOrderSkips ==
    [][ \A r \in Req :
          ( /\ req[r].pc \in PathEntry
            /\ req'[r] # req[r]
            /\ faults' = faults
            /\ OrderForPaymentExists(r) )
          => /\ orders' = orders
             /\ req'[r].pc = "finish"
             /\ req'[r].result = "Ok" ]_vars

\* C22 (as claimed): a WebhookEvent row is updated at most once after its
\* creation, and exactly once by the time the request that logged it has
\* responded (its mark_webhook_processed not failing), whatever the event type.
C22_MarkedExactlyOnce ==
    /\ \A j \in 1..Len(webhook_events) : webhook_events[j].updates <= 1
    /\ \A r \in Req :
        (Done(r) /\ req[r].webhook_id # 0 /\ ~req[r].markErr)
        => EventRowOf(r).updates = 1

\* Positions of a request between its event insert and its Order insert.
BeforeOrderInsert ==
    {"payment_intent", "charge_select", "charge_create", "checkout",
     "payment_select", "payment_create", "mark_other"}

\* C23: the steps of a request occur in the order verification, idempotency
\* check, event insert, dispatch, Order insert, mark: a request that is at or
\* past the check passed verification; one that has not yet inserted its event
\* has no Order and no row; an Order belongs to a request that logged its
\* event first and refers to that existing row; the row is not marked before
\* the routine has returned.
C23_StepOrder ==
    /\ \A r \in Req :
        /\ (req[r].pc \in {"check", "log"} \/ req[r].webhook_id # 0) => Genuine(r)
        /\ req[r].pc \in {"check", "log"}
              => req[r].webhook_id = 0 /\ req[r].order_id = 0
        /\ req[r].pc \in BeforeOrderInsert
              => /\ req[r].webhook_id # 0 /\ req[r].order_id = 0
                 /\ EventRowOf(r).updates = 0
        /\ req[r].order_id # 0
              => /\ req[r].webhook_id \in 1..Len(webhook_events)
                 /\ orders[req[r].order_id].webhook_event_id = Some(req[r].webhook_id)
        /\ (req[r].webhook_id # 0 /\ EventRowOf(r).updates > 0)
              => req[r].pc \in {"finish", "done"}
    /\ \A i \in 1..Len(orders) :
        /\ IsSome(orders[i].webhook_event_id)
        /\ \E j \in 1..Len(webhook_events) :
            webhook_events[j].id = Unwrap(orders[i].webhook_event_id)

\* A request went through every step: its Order refers to its event row,
\* which was marked afterwards.
C23_Witness ==
    \E r \in Req :
        /\ Done(r) /\ Genuine(r)
        /\ req[r].webhook_id # 0 /\ req[r].order_id # 0
        /\ orders[req[r].order_id].webhook_event_id = Some(req[r].webhook_id)
        /\ EventRowOf(r).updates = 1

\* The error_message of the row agrees with the outcome of r's routine and
\* with the error field of r's response.
ErrorRecorded(r) ==
    /\ IsSome(EventRowOf(r).error_message) <=> req[r].result # "Ok"
    /\ req[r].result # "Ok"
          => /\ EventRowOf(r).error_message = Some(req[r].result)
             /\ EventRowOf(r).error_message = req[r].resp.error
    /\ req[r].result = "Ok"
          => EventRowOf(r).error_message = None /\ req[r].resp.error = None

\* C24 (as claimed): after a request that logged its event has responded, the
\* row's error_message is non-null exactly when the routine returned an error,
\* then equal to the response's error string, and null on success or skip.
C24_ErrorMessageExact ==
    \A r \in Req :
        (Done(r) /\ req[r].webhook_id # 0) => ErrorRecorded(r)

\* C24 (amended): the same, for requests whose mark_webhook_processed did
\* not fail in the database.
C24_ErrorMessageWhenMarked ==
    \A r \in Req :
        (Done(r) /\ req[r].webhook_id # 0 /\ ~req[r].markErr) => ErrorRecorded(r)

\* A Square payment.updated without payment object was answered with the
\* error string that its row records.
C24_Witness ==
    \E r \in Req :
        /\ Done(r) /\ req[r].webhook_id # 0 /\ ~req[r].markErr
        /\ req[r].result = "Missing payment object in event data"
        /\ EventRowOf(r).error_message = Some("Missing payment object in event data")
        /\ req[r].resp.error = EventRowOf(r).error_message

\* C25: a request whose mark_webhook_processed failed in the database is
\* answered as its routine's result decides: 200 {received: true} when the
\* routine succeeded, 200 with the routine's error string when it failed.
C25_MarkFailureKeepsResponse ==
    \A r \in Req :
        (Done(r) /\ req[r].markErr)
        => /\ req[r].resp.status = 200
           /\ ~req[r].resp.duplicate
           /\ req[r].result = "Ok" => req[r].resp.error = None
           /\ req[r].result # "Ok" => req[r].resp.error = Some(req[r].result)

\* The final update of a successfully handled payment failed: the row was
\* never marked, the Order stands and the answer is 200 {received: true}.
C25_Witness ==
    \E r \in Req :
        /\ Done(r) /\ req[r].markErr
        /\ req[r].order_id # 0
        /\ EventRowOf(r).updates = 0
        /\ req[r].resp = Respond(200, FALSE, None)

\* How far along its handler a position is; "done" is the last.
Rank(pc) ==
    CASE pc = "idle" -> 0
      [] pc = "check" -> 1
      [] pc = "log" -> 2
      [] pc \in {"payment_intent", "charge_select", "checkout",
                 "payment_select", "mark_other"} -> 3
      [] pc \in {"charge_create", "payment_create"} -> 4
      [] pc = "mail" -> 5
      [] pc = "finish" -> 6
      [] pc = "done" -> 7

\* C26: every step of a request moves it strictly forward towards its
\* response, so it ends after at most seven steps and passes the idempotency
\* check, the event insert and the Order insert at most once each; a request
\* that ends has one of the responses 200, 400, 401, 500; a WebhookEvent row
\* is added only by the event insert and an Order only by an Order insert,
\* one row at a time.
C26_NoInternalRetry ==
    [][ \A r \in Req :
          req'[r] # req[r]
          => /\ Rank(req'[r].pc) > Rank(req[r].pc)
             /\ req'[r].pc = "done" => req'[r].resp.status \in {200, 400, 401, 500}
             /\ webhook_events' # webhook_events
                   => \/ /\ req[r].pc = "log"
                         /\ Len(webhook_events') = Len(webhook_events) + 1
                      \/ /\ req[r].pc \in {"mark_other", "finish"}
                         /\ Len(webhook_events') = Len(webhook_events)
             /\ orders' # orders
                   => /\ req[r].pc \in {"payment_intent", "charge_create",
                                        "checkout", "payment_create"}
                      /\ Len(orders') = Len(orders) + 1 ]_vars

\* One request was refused with 500 by a failed event insert and another one
\* ran to the end, each with a single attempt.
C26_Witness ==
    \E r1 \in Req : \E r2 \in Req :
        /\ Done(r1) /\ req[r1].resp = Respond(500, FALSE, Some("Failed to log webhook"))
        /\ req[r1].dbErr
        /\ Done(r2) /\ req[r2].order_id # 0 /\ MarkedSuccessful(r2)
        /\ Len(webhook_events) = 1 /\ Len(orders) = 1

\* C27 (as claimed): a request is answered with the duplicate marker only
\* when a row with its event_id has reached its terminal state, that is, the
\* mark_webhook_processed update of the delivery that logged it was applied.
C27_DuplicateMeansHandled ==
    \A r \in Req :
        (Done(r) /\ req[r].resp.duplicate)
        => \E j \in EventRows(EventIdOf(req[r].body)) :
              /\ webhook_events[j].updates > 0
              /\ IsSome(webhook_events[j].processed_at)

\* Request q logged, for the other provider, an event with r's event_id and
\* had responded before r arrived.
LoggedByOtherProvider(q, r) ==
    /\ q \in req[r].after
    /\ req[q].webhook_id # 0
    /\ req[q].endpoint # req[r].endpoint
    /\ EventIdOf(req[q].body) = EventIdOf(req[r].body)

\* C28: a correctly signed delivery whose event_id was already logged for the
\* other provider is answered (its lookup not failing) as a duplicate, logs no
\* event and creates no Order: the only row with that event_id is the other
\* provider's.
C28_GateIgnoresProvider ==
    \A r \in Req : \A q \in Req :
        (Done(r) /\ Genuine(r) /\ ~req[r].dbErr /\ LoggedByOtherProvider(q, r))
        => /\ req[r].resp = Respond(200, TRUE, None)
           /\ req[r].webhook_id = 0
           /\ req[r].order_id = 0
           /\ \A j \in EventRows(EventIdOf(req[r].body)) :
                 webhook_events[j].provider = req[q].endpoint

\* Square's payment.updated "evt_1" (payment sq_2, COMPLETED) arrived after
\* Stripe's evt_1 had been handled: it was answered as a duplicate and there is
\* no Order for the Square payment.
C28_Witness ==
    \E r \in Req : \E q \in Req :
        /\ Done(r) /\ Genuine(r) /\ LoggedByOtherProvider(q, r)
        /\ req[r].endpoint = "square" /\ OrderCreating(req[r].body)
        /\ req[r].resp = Respond(200, TRUE, None)
        /\ ~SquareOrderExists(orders, PaymentIdOf(req[r].body))

\* C29: a request is at, or past, its notification step only when its own
\* Order insert succeeded with a customer email and it is not on the
\* charge.succeeded path, so requests that skip or fail creation or are
\* duplicates attempt none; and a request that created an Order without an
\* email attempts none and still ends in success without an error field.
C29_NotificationAfterInsert ==
    \A r \in Req :
        /\ (req[r].pc = "mail" \/ req[r].mail # "none")
              => /\ req[r].order_id # 0
                 /\ IsSome(orders[req[r].order_id].customer_email)
                 /\ ~IsCharge(req[r].body)
                 /\ ~req[r].resp.duplicate
                 /\ req[r].conflict = "none"
        /\ (Done(r) /\ req[r].order_id # 0
                    /\ orders[req[r].order_id].customer_email = None)
              => /\ req[r].mail = "none"
                 /\ req[r].result = "Ok"
                 /\ req[r].resp = Respond(200, FALSE, None)

\* A charge.succeeded with a billing email created its Order without a
\* notification, while a Square payment without buyer email did the same.
C29_Witness ==
    \E r1 \in Req : \E r2 \in Req :
        /\ Done(r1) /\ IsCharge(req[r1].body) /\ req[r1].order_id # 0
        /\ IsSome(orders[req[r1].order_id].customer_email)
        /\ req[r1].mail = "none"
        /\ Done(r2) /\ req[r2].order_id # 0
        /\ orders[req[r2].order_id].customer_email = None
        /\ req[r2].mail = "none" /\ req[r2].resp = Respond(200, FALSE, None)

\* Checkout sessions that lack amount_total or currency.
CheckoutLacksField(b) ==
    /\ IsCheckout(b) /\ Catalogue[b].object.kind = "CheckoutSession"
    /\ \/ Catalogue[b].object.amount_total = None
       \/ Catalogue[b].object.currency = None

\* C30: the Order of a checkout.session.completed without amount_total has
\* total_amount 0 and that of one without currency has currency "USD"; the
\* request that logged such an event (no database failure, no refused insert)
\* creates the Order and ends in success without an error field.
C30_CheckoutDefaults ==
    \A r \in Req :
        (Genuine(r) /\ CheckoutLacksField(req[r].body))
        => LET session == Catalogue[req[r].body].object
           IN  /\ req[r].order_id # 0
                  => /\ session.amount_total = None
                        => orders[req[r].order_id].total_amount = 0
                     /\ session.currency = None
                        => orders[req[r].order_id].currency = "USD"
               /\ req[r].result \in {"pending", "Ok", "Failed to create order: duplicate key",
                                     "Failed to create order: database error"}
               /\ (Done(r) /\ req[r].webhook_id # 0 /\ ~req[r].dbErr
                           /\ req[r].conflict = "none")
                  => /\ req[r].order_id # 0
                     /\ req[r].resp = Respond(200, FALSE, None)

\* The session cs_1 without amount_total and currency was recorded as an
\* Order of 0 USD and answered 200 {received: true}.
C30_Witness ==
    \E r \in Req :
        /\ Genuine(r) /\ CheckoutLacksField(req[r].body)
        /\ Done(r) /\ req[r].order_id # 0
        /\ orders[req[r].order_id].total_amount = 0
        /\ orders[req[r].order_id].currency = "USD"
        /\ req[r].resp = Respond(200, FALSE, None)

====
